---- MODULE Spec2Model ----
(***************************************************************************)
(* The realtime mix engine of daw_engine.c: the process-wide scene G, the  *)
(* control API (lifecycle, transport, master, tracks, clip load) and the   *)
(* audio callback audio_cb that the device backend drives.                 *)
(*                                                                         *)
(* Numbers.  A C double is a fixed-point integer in units of 1/DUnit and a *)
(* C float one in units of 1/FOne.  The inputs of the specifications      *)
(* SpecApi .. SpecTypes are chosen so that every double operation they     *)
(* perform is exact.                                                       *)
(***************************************************************************)
EXTENDS Integers, Sequences, FiniteSets, TLC

(* ------------------------------------------------------------------------ *)
(* Limits and enumerations of daw_engine.h                                  *)
(* ------------------------------------------------------------------------ *)

\* DAW_MAX_TRACKS and DAW_MAX_CLIPS_PER_TRACK are 64 and 128 in the header;
\* the table sizes are scaled down here so that "table full" is reachable.
DAW_MAX_TRACKS == 2
DAW_MAX_CLIPS_PER_TRACK == 1
DAW_CHANNELS == 2
DAW_DEFAULT_SR == 44100
DAW_DEFAULT_BPM == 120
DAW_DEFAULT_BUFFER == 512

DAW_OK == 0
DAW_ERR_NOT_INIT == -1
DAW_ERR_ALREADY_INIT == -2
DAW_ERR_AUDIO_DEVICE == -3
DAW_ERR_INVALID_TRACK == -4
DAW_ERR_FILE_NOT_FOUND == -5
DAW_ERR_OUT_OF_MEMORY == -6
DAW_ERR_INVALID_PARAM == -7
DAW_ERR_CLIP_FULL == -8

DAW_STATE_STOPPED == 0
DAW_STATE_PLAYING == 1
DAW_STATE_RECORDING == 2
DAW_STATE_PAUSED == 3

DAW_TRACK_AUDIO == 0
DAW_TRACK_MIDI == 1
DAW_TRACK_BUS == 2
DAW_TRACK_MASTER == 3

(* ------------------------------------------------------------------------ *)
(* Bounds of the model                                                      *)
(* ------------------------------------------------------------------------ *)

\* how many callbacks may pass the pre-mix gate in one behaviour
MaxCallbacks == 2
\* how many tracks may be created in one behaviour (caps next_id)
MaxCreates == 3

(* ------------------------------------------------------------------------ *)
(* Number representation                                                    *)
(* ------------------------------------------------------------------------ *)

\* one unit of a double (beats, seconds, bpm) is 1/DUnit
DUnit == 4
\* one unit of a float (samples, gains, volumes, peaks) is 1/FOne
FOne == 10000

\* the float or double that is not a number (NAN): one value stands for all
\* of them; it is unequal to every number the model computes
NaN == 0 - (FOne * FOne * 10)
\* the C comparisons a < b, a > b, a >= b: false when an operand is NaN
Lt(a, b) == a # NaN /\ b # NaN /\ a < b
Gt(a, b) == a # NaN /\ b # NaN /\ a > b
Ge(a, b) == a # NaN /\ b # NaN /\ a >= b

D(n) == n * DUnit
DMul(a, b) == IF a = NaN \/ b = NaN THEN NaN ELSE (a * b) \div DUnit
DDiv(a, b) == IF a = NaN \/ b = NaN THEN NaN ELSE (a * DUnit) \div b
\* fmod for a non-negative dividend and a positive divisor
DFmod(a, b) == a % b

F(n) == n * FOne
FAbs(a) == IF a < 0 THEN -a ELSE a
\* float product, rounded toward zero
FMul(a, b) ==
    IF (a < 0) = (b < 0) THEN (FAbs(a) * FAbs(b)) \div FOne
    ELSE -((FAbs(a) * FAbs(b)) \div FOne)

\* clampf, daw_engine.c:80-82
clampf(v, lo, hi) == IF Lt(v, lo) THEN lo ELSE IF Gt(v, hi) THEN hi ELSE v

\* cosf and sinf at the three angles (pan + 1) * pi/4 that a pan of -1, 0 or
\* +1 gives; every other pan the model stores is clamped to one of them.
CosQuarter(pan) ==
    IF pan <= -FOne THEN FOne ELSE IF pan >= FOne THEN 0 ELSE 7071
SinQuarter(pan) ==
    IF pan <= -FOne THEN 0 ELSE IF pan >= FOne THEN FOne ELSE 7071

\* pan_gains, daw_engine.c:85-89: <<gl, gr>>
pan_gains(pan) == <<CosQuarter(pan), SinQuarter(pan)>>

\* peak_update, daw_engine.c:92-95: the new value of *p
peak_update(p, s) == IF FAbs(s) > p THEN FAbs(s) ELSE FMul(p, 9997)

(* ------------------------------------------------------------------------ *)
(* State                                                                    *)
(* ------------------------------------------------------------------------ *)

VARIABLES
    G,          \* static ctx_t G: the scene
    next_id,    \* static uint32_t next_id of daw_track_create
    lock,       \* G.lock: "none" (not initialised / destroyed), "free", "cb"
                \* (held by the callback); a control call takes and releases
                \* it within its step
    dev,        \* G.device: "closed", "running", or "open" (initialised
                \* but not started)
    ctl,        \* the control thread: "idle" (in the caller's code), "init"
                \* (inside daw_init), "halt", "free" or "wipe" (inside
                \* daw_shutdown, about to take that step) or "returned" (a
                \* call has just returned)
    ret,        \* the call that has just returned: operation, result, id
    cb,         \* the audio callback in progress on the realtime thread
    out,        \* the output buffer the callback filled, <<l, r>> per frame
    n_cb,       \* callbacks that passed the pre-mix gate so far
    issued,     \* ids returned by successful daw_track_create calls, in order
    dead        \* ids whose track was destroyed (daw_track_destroy, daw_shutdown)

vars == <<G, next_id, lock, dev, ctl, ret, cb, out, n_cb, issued, dead>>

Slots == 0 .. (DAW_MAX_TRACKS - 1)
ClipSlots == 0 .. (DAW_MAX_CLIPS_PER_TRACK - 1)

\* clip_t after memset 0, daw_engine.c:26-32.  frees is not a field of the
\* struct: it counts the calls of free() on the buffers l and r point to.
ZeroClip ==
    [l |-> <<>>, r |-> <<>>, n |-> 0, start_beat |-> 0, len_beats |-> 0,
     active |-> FALSE, frees |-> 0]

\* track_t after memset 0, daw_engine.c:34-45
ZeroTrack ==
    [active |-> FALSE, id |-> 0, type |-> 0, name |-> <<"", 0>>,
     vol |-> 0, pan |-> 0, muted |-> FALSE, soloed |-> FALSE, armed |-> FALSE,
     peak_l |-> 0, peak_r |-> 0,
     clips |-> [c \in ClipSlots |-> ZeroClip], n_clips |-> 0]

\* ctx_t after memset 0, daw_engine.c:47-74 (device and lock are the
\* variables dev and lock)
ZeroG ==
    [ready |-> FALSE, state |-> 0, bpm |-> 0, pos_beats |-> 0, pos_secs |-> 0,
     loop_on |-> FALSE, loop_start |-> 0, loop_end |-> 0,
     sr |-> 0, bits |-> 0, buf_frames |-> 0,
     tracks |-> [i \in Slots |-> ZeroTrack], n_tracks |-> 0,
     any_solo |-> FALSE,
     master_vol |-> 0, master_peak_l |-> 0, master_peak_r |-> 0]

\* no callback in progress
\* the transport fields of a scene, daw_engine.c:51-60
TransportOf(g) ==
    [state |-> g.state, bpm |-> g.bpm, sr |-> g.sr,
     pos_beats |-> g.pos_beats, pos_secs |-> g.pos_secs,
     loop_on |-> g.loop_on, loop_start |-> g.loop_start,
     loop_end |-> g.loop_end]

\* No callback in progress.  Besides its position pc and its frame count nf
\* a callback records what it observed: G.ready and the transport state as
\* read at the gate, the state current when it took the lock, whether the
\* mutex it locked was initialised, whether it read clip PCM that had been
\* freed, whether it ran the mix pass, the tracks that added samples to the
\* mix (as they were then), the transport before and after the pass, and
\* the highest index at which it accessed mix_l and mix_r (-1: none).
CbIdle ==
    [pc |-> "idle", nf |-> 0, gate_ready |-> FALSE, gate_state |-> 0,
     lock_state |-> 0, lock_alive |-> TRUE, freed_read |-> FALSE,
     mixed |-> FALSE, contrib |-> {}, mix_last |-> -1,
     pre |-> TransportOf(ZeroG), post |-> TransportOf(ZeroG)]

NoRet == [op |-> "none", res |-> DAW_OK, id |-> 0]
Ret(op, res) == [op |-> op, res |-> res, id |-> 0]

Init ==
    /\ G = ZeroG
    /\ next_id = 1
    /\ lock = "none"
    /\ dev = "closed"
    /\ ctl = "idle"
    /\ ret = NoRet
    /\ cb = CbIdle
    /\ out = <<>>
    /\ n_cb = 0
    /\ issued = <<>>
    /\ dead = {}

\* find_track, daw_engine.c:97-102: the slot of the track, or -1 for NULL
find_track(g, id) ==
    IF \E i \in Slots : g.tracks[i].active /\ g.tracks[i].id = id
    THEN CHOOSE i \in Slots :
             /\ g.tracks[i].active /\ g.tracks[i].id = id
             /\ \A j \in Slots :
                    (g.tracks[j].active /\ g.tracks[j].id = id) => i <= j
    ELSE -1

\* the value refresh_solo stores in G.any_solo, daw_engine.c:104-109
SoloScan(g) == \E i \in Slots : g.tracks[i].active /\ g.tracks[i].soloed
\* a scan that looks at the solo flag of every slot, active or not
refresh_solo_all_slots(g) ==
    [g EXCEPT !.any_solo = \E i \in Slots : g.tracks[i].soloed]
refresh_solo(g) == [g EXCEPT !.any_solo = SoloScan(g)]

\* what a control call leaves alone on the realtime side
CbUnchanged == UNCHANGED <<cb, out, n_cb>>

\* a control call that returns without changing the scene
Returns(op, res) ==
    /\ ret' = Ret(op, res)
    /\ ctl' = "returned"
    /\ CbUnchanged
    /\ UNCHANGED <<G, next_id, lock, dev, issued, dead>>

\* NEED_INIT, daw_engine.c:312
NeedInitFails(g) == ~g.ready

\* a locked update of the scene: LOCK; ...; UNLOCK; return DAW_OK
Commits(op, g2) ==
    /\ lock = "free"
    /\ G' = g2
    /\ ret' = Ret(op, DAW_OK)
    /\ ctl' = "returned"
    /\ CbUnchanged
    /\ UNCHANGED <<next_id, lock, dev, issued, dead>>

\* the caller has taken the result of the call that returned
caller_resumes ==
    /\ ctl = "returned"
    /\ ctl' = "idle"
    /\ ret' = NoRet
    /\ CbUnchanged
    /\ UNCHANGED <<G, next_id, lock, dev, issued, dead>>

(* ------------------------------------------------------------------------ *)
(* Lifecycle                                                                *)
(* ------------------------------------------------------------------------ *)

\* the scene daw_init builds before it opens the device, daw_engine.c:214-222;
\* cfg is a daw_config_t record, with null = TRUE for a NULL pointer
InitScene(cfg) ==
    [ZeroG EXCEPT
        !.sr = IF cfg.null THEN DAW_DEFAULT_SR ELSE cfg.sample_rate,
        !.bits = IF cfg.null THEN 24 ELSE cfg.bit_depth,
        !.buf_frames = IF cfg.null THEN DAW_DEFAULT_BUFFER
                       ELSE cfg.buffer_frames,
        !.bpm = IF ~cfg.null /\ Gt(cfg.bpm, 0) THEN cfg.bpm
                ELSE D(DAW_DEFAULT_BPM),
        !.master_vol = F(1),
        !.state = DAW_STATE_STOPPED]

\* a device left initialised when ma_device_start fails
DeviceAfterNoUninit(backend) ==
    IF backend = "ok" THEN "running"
    ELSE IF backend = "start_fails" THEN "open" ELSE "closed"

\* the device after the ma_device_init and ma_device_start calls of
\* daw_init, daw_engine.c:231-237: "running", or "closed" when either fails
\* (a device that fails to start is uninitialised again, line 235)
DeviceAfter(backend) ==
    IF backend = "ok" THEN "running" ELSE "closed"

\* daw_init up to the start of the device, daw_engine.c:211-237.
\* backend: "ok", "init_fails" (ma_device_init) or "start_fails"
\* (ma_device_start).
daw_init(cfg, backend) ==
    /\ ctl = "idle"
    /\ IF G.ready
       THEN Returns("daw_init", DAW_ERR_ALREADY_INIT)
       ELSE /\ G' = InitScene(cfg)
            /\ lock' = "free"
            /\ dev' = DeviceAfter(backend)
            /\ IF backend = "ok"
               THEN /\ ctl' = "init"
                    /\ ret' = ret
               ELSE /\ ctl' = "returned"
                    /\ ret' = Ret("daw_init", DAW_ERR_AUDIO_DEVICE)
            /\ CbUnchanged
            /\ UNCHANGED <<next_id, issued, dead>>

\* daw_init from G.ready = true to its return, daw_engine.c:239-242; the
\* device is already running, so callbacks may have run in between
daw_init_ready ==
    /\ ctl = "init"
    /\ G' = [G EXCEPT !.ready = TRUE]
    /\ ctl' = "returned"
    /\ ret' = Ret("daw_init", DAW_OK)
    /\ CbUnchanged
    /\ UNCHANGED <<next_id, lock, dev, issued, dead>>

\* a shutdown that does not clear the scene
ShutdownSceneKept(g) == g

\* the scene daw_shutdown leaves, daw_engine.c:262
ShutdownScene(g) == ZeroG

\* the loop free(t->clips[ci].l); free(t->clips[ci].r) over ci < n_clips,
\* daw_engine.c:255-258 and 406-409: the track with those frees counted
FreeClips(t) ==
    [t EXCEPT !.clips =
        [c \in ClipSlots |->
            IF c < t.n_clips THEN [t.clips[c] EXCEPT !.frees = @ + 1]
            ELSE t.clips[c]]]

\* the scene after the loop over the active tracks, daw_engine.c:252-259
FreeActive(g) ==
    [g EXCEPT !.tracks =
        [i \in Slots |->
            IF g.tracks[i].active THEN FreeClips(g.tracks[i])
            ELSE g.tracks[i]]]

ActiveIds(g) == {g.tracks[i].id : i \in {j \in Slots : g.tracks[j].active}}

\* a teardown that releases the clip PCM and the scene before it stops the
\* device
ShutdownOrderFreeFirst == <<"free", "wipe", "halt">>

\* The steps of daw_shutdown after its G.ready test, in program order,
\* daw_engine.c:248-262: "halt" stops and uninitialises the device, "free"
\* releases the clip PCM, "wipe" destroys the mutex and clears G.
ShutdownOrder == <<"halt", "free", "wipe">>

StepIndex(step) ==
    CHOOSE k \in 1 .. Len(ShutdownOrder) : ShutdownOrder[k] = step
\* where the control thread is after a step: the next step, or the return
StepAfter(step) ==
    IF StepIndex(step) = Len(ShutdownOrder) THEN "returned"
    ELSE ShutdownOrder[StepIndex(step) + 1]
InShutdown == ctl \in {"halt", "free", "wipe"}
\* daw_shutdown has passed its free() calls and has not returned
ClipsFreed == InShutdown /\ StepIndex(ctl) > StepIndex("free")

\* what every step of daw_shutdown does to the control thread
ShutdownStep(step) ==
    /\ ctl = step
    /\ ctl' = StepAfter(step)
    /\ ret' = IF StepAfter(step) = "returned"
              THEN Ret("daw_shutdown", DAW_OK) ELSE ret
    /\ CbUnchanged
    /\ UNCHANGED <<next_id, issued>>

\* daw_shutdown, the G.ready test, daw_engine.c:245-246
daw_shutdown ==
    /\ ctl = "idle"
    /\ IF NeedInitFails(G)
       THEN Returns("daw_shutdown", DAW_ERR_NOT_INIT)
       ELSE /\ ctl' = ShutdownOrder[1]
            /\ CbUnchanged
            /\ UNCHANGED <<G, next_id, lock, dev, ret, issued, dead>>

\* ma_device_stop and ma_device_uninit, daw_engine.c:248-249.
\* ma_device_stop returns only when no callback is in progress, and none is
\* invoked afterwards.
daw_shutdown_halt ==
    /\ ShutdownStep("halt")
    /\ cb.pc = "idle"
    /\ dev' = "closed"
    /\ UNCHANGED <<G, lock, dead>>

\* the free() loop over the clips of the active tracks, daw_engine.c:252-259
daw_shutdown_free ==
    /\ ShutdownStep("free")
    /\ G' = FreeActive(G)
    /\ UNCHANGED <<lock, dev, dead>>

\* pthread_mutex_destroy and memset, daw_engine.c:261-262
daw_shutdown_wipe ==
    /\ ShutdownStep("wipe")
    /\ lock' = "none"
    /\ dead' = dead \cup ActiveIds(G)
    /\ G' = ShutdownScene(G)
    /\ dev' = dev

\* daw_get_state, daw_engine.c:267-289; has_out: the out pointer is not NULL
daw_get_state(has_out) ==
    /\ ctl = "idle"
    /\ IF NeedInitFails(G) THEN Returns("daw_get_state", DAW_ERR_NOT_INIT)
       ELSE IF ~has_out THEN Returns("daw_get_state", DAW_ERR_INVALID_PARAM)
       ELSE Commits("daw_get_state", G)

(* ------------------------------------------------------------------------ *)
(* Transport and master                                                     *)
(* ------------------------------------------------------------------------ *)

\* daw_play, daw_engine.c:316-319
daw_play ==
    /\ ctl = "idle"
    /\ IF NeedInitFails(G) THEN Returns("daw_play", DAW_ERR_NOT_INIT)
       ELSE Commits("daw_play", [G EXCEPT !.state = DAW_STATE_PLAYING])

\* daw_stop, daw_engine.c:320-324
daw_stop ==
    /\ ctl = "idle"
    /\ IF NeedInitFails(G) THEN Returns("daw_stop", DAW_ERR_NOT_INIT)
       ELSE Commits("daw_stop",
                    [G EXCEPT !.state = DAW_STATE_STOPPED,
                              !.pos_beats = 0, !.pos_secs = 0])

\* daw_pause, daw_engine.c:325-330
daw_pause ==
    /\ ctl = "idle"
    /\ IF NeedInitFails(G) THEN Returns("daw_pause", DAW_ERR_NOT_INIT)
       ELSE Commits("daw_pause",
                    IF G.state = DAW_STATE_PLAYING
                    THEN [G EXCEPT !.state = DAW_STATE_PAUSED] ELSE G)

\* daw_record, daw_engine.c:331-334
daw_record ==
    /\ ctl = "idle"
    /\ IF NeedInitFails(G) THEN Returns("daw_record", DAW_ERR_NOT_INIT)
       ELSE Commits("daw_record", [G EXCEPT !.state = DAW_STATE_RECORDING])

\* daw_seek, daw_engine.c:335-342
daw_seek(beat) ==
    /\ ctl = "idle"
    /\ IF NeedInitFails(G) THEN Returns("daw_seek", DAW_ERR_NOT_INIT)
       ELSE IF Lt(beat, 0) THEN Returns("daw_seek", DAW_ERR_INVALID_PARAM)
       ELSE Commits("daw_seek",
                    [G EXCEPT !.pos_beats = beat,
                              !.pos_secs = DMul(beat, DDiv(D(60), G.bpm))])

\* daw_set_bpm, daw_engine.c:343-347
daw_set_bpm(bpm) ==
    /\ ctl = "idle"
    /\ IF NeedInitFails(G) THEN Returns("daw_set_bpm", DAW_ERR_NOT_INIT)
       ELSE IF Lt(bpm, D(1)) \/ Gt(bpm, D(999))
            THEN Returns("daw_set_bpm", DAW_ERR_INVALID_PARAM)
       ELSE Commits("daw_set_bpm", [G EXCEPT !.bpm = bpm])

\* a set_loop that validates the region only when it enables the loop
daw_set_loop_unchecked_off(en, s, e) ==
    /\ ctl = "idle"
    /\ IF NeedInitFails(G) THEN Returns("daw_set_loop", DAW_ERR_NOT_INIT)
       ELSE IF en /\ Ge(s, e)
            THEN Returns("daw_set_loop", DAW_ERR_INVALID_PARAM)
       ELSE Commits("daw_set_loop",
                    [G EXCEPT !.loop_on = en, !.loop_start = s,
                              !.loop_end = e])

\* daw_set_loop, daw_engine.c:348-353
daw_set_loop(en, s, e) ==
    /\ ctl = "idle"
    /\ IF NeedInitFails(G) THEN Returns("daw_set_loop", DAW_ERR_NOT_INIT)
       ELSE IF Ge(s, e) THEN Returns("daw_set_loop", DAW_ERR_INVALID_PARAM)
       ELSE Commits("daw_set_loop",
                    [G EXCEPT !.loop_on = en, !.loop_start = s,
                              !.loop_end = e])

\* daw_set_master_volume, daw_engine.c:359-363
daw_set_master_volume(v) ==
    /\ ctl = "idle"
    /\ IF NeedInitFails(G)
       THEN Returns("daw_set_master_volume", DAW_ERR_NOT_INIT)
       ELSE IF Lt(v, 0) \/ Gt(v, F(2))
            THEN Returns("daw_set_master_volume", DAW_ERR_INVALID_PARAM)
       ELSE Commits("daw_set_master_volume", [G EXCEPT !.master_vol = v])

\* daw_get_master_peaks, daw_engine.c:364-369: reads without the lock
daw_get_master_peaks(has_out) ==
    /\ ctl = "idle"
    /\ IF NeedInitFails(G)
       THEN Returns("daw_get_master_peaks", DAW_ERR_NOT_INIT)
       ELSE IF ~has_out
            THEN Returns("daw_get_master_peaks", DAW_ERR_INVALID_PARAM)
       ELSE Returns("daw_get_master_peaks", DAW_OK)

(* ------------------------------------------------------------------------ *)
(* Tracks                                                                   *)
(* ------------------------------------------------------------------------ *)

\* the table tn of daw_track_create, daw_engine.c:390-391
TypeName(type) ==
    LET tn == <<"Audio", "MIDI", "Bus", "Master">>
    IN  tn[(IF type < 4 THEN type ELSE 0) + 1]

\* the first inactive slot, or -1 when the loop of daw_track_create finds
\* none, daw_engine.c:381-382
FreeSlot(g) ==
    IF \E i \in Slots : ~g.tracks[i].active
    THEN CHOOSE i \in Slots :
             /\ ~g.tracks[i].active
             /\ \A j \in Slots : ~g.tracks[j].active => i <= j
    ELSE -1

\* an id taken from the table slot instead of the counter
NewTrackIdFromSlot(nid, slot) == slot + 1

\* the id daw_track_create gives a track, daw_engine.c:380,386
NewTrackId(nid, slot) == nid

\* a create that does not clear the slot it reuses
NewTrackInDirtySlot(g, slot, type, nid) ==
    [g.tracks[slot] EXCEPT
        !.active = TRUE,
        !.id = nid,
        !.type = type,
        !.vol = F(1),
        !.pan = 0,
        !.name = <<TypeName(type), g.n_tracks + 1>>]

\* the track daw_track_create builds in a slot, daw_engine.c:384-391
NewTrack(g, slot, type, nid) ==
    [ZeroTrack EXCEPT
        !.active = TRUE,
        !.id = NewTrackId(nid, slot),
        !.type = type,
        !.vol = F(1),
        !.pan = 0,
        !.name = <<TypeName(type), g.n_tracks + 1>>]

\* daw_track_create, daw_engine.c:375-400; has_out: out_id is not NULL
daw_track_create(type, has_out) ==
    /\ ctl = "idle"
    /\ IF NeedInitFails(G)
       THEN Returns("daw_track_create", DAW_ERR_NOT_INIT)
       ELSE IF ~has_out \/ G.n_tracks >= DAW_MAX_TRACKS
            THEN Returns("daw_track_create", DAW_ERR_OUT_OF_MEMORY)
       ELSE IF FreeSlot(G) = -1
            THEN /\ lock = "free"
                 /\ Returns("daw_track_create", DAW_ERR_OUT_OF_MEMORY)
       ELSE LET i == FreeSlot(G)
                t == NewTrack(G, i, type, next_id)
            IN  /\ lock = "free"
                /\ next_id <= MaxCreates
                /\ G' = [G EXCEPT !.tracks[i] = t,
                                  !.n_tracks = G.n_tracks + 1]
                /\ next_id' = next_id + 1
                /\ ret' = [op |-> "daw_track_create", res |-> DAW_OK,
                           id |-> t.id]
                /\ issued' = Append(issued, t.id)
                /\ ctl' = "returned"
                /\ CbUnchanged
                /\ UNCHANGED <<lock, dev, dead>>

\* the scene after the locked part of daw_track_destroy on slot i,
\* daw_engine.c:406-413
DestroyedScene(g, i) ==
    refresh_solo([g EXCEPT !.tracks[i] =
                               [FreeClips(g.tracks[i]) EXCEPT !.active = FALSE],
                           !.n_tracks = g.n_tracks - 1])

\* daw_track_destroy, daw_engine.c:402-416
daw_track_destroy(id) ==
    /\ ctl = "idle"
    /\ IF NeedInitFails(G)
       THEN Returns("daw_track_destroy", DAW_ERR_NOT_INIT)
       ELSE IF find_track(G, id) = -1
            THEN /\ lock = "free"
                 /\ Returns("daw_track_destroy", DAW_ERR_INVALID_TRACK)
       ELSE LET i == find_track(G, id)
            IN  /\ lock = "free"
                /\ G' = DestroyedScene(G, i)
                /\ ret' = Ret("daw_track_destroy", DAW_OK)
                /\ dead' = dead \cup {id}
                /\ ctl' = "returned"
                /\ CbUnchanged
                /\ UNCHANGED <<next_id, lock, dev, issued>>

\* the common shape of daw_track_info and daw_track_set_*: NEED_INIT, an
\* optional pointer check, LOCK, find_track, update, UNLOCK
TrackCall(op, id, ptr_ok, g2) ==
    /\ ctl = "idle"
    /\ IF NeedInitFails(G) THEN Returns(op, DAW_ERR_NOT_INIT)
       ELSE IF ~ptr_ok THEN Returns(op, DAW_ERR_INVALID_PARAM)
       ELSE IF find_track(G, id) = -1
            THEN /\ lock = "free"
                 /\ Returns(op, DAW_ERR_INVALID_TRACK)
       ELSE Commits(op, g2)

\* the slot find_track returns, or slot 0 where the call fails before using it
SlotOf(id) == IF find_track(G, id) = -1 THEN 0 ELSE find_track(G, id)

\* daw_track_info, daw_engine.c:418-437
daw_track_info(id, has_out) ==
    TrackCall("daw_track_info", id, has_out, G)

\* daw_track_set_name, daw_engine.c:439-447
daw_track_set_name(id, has_name, name) ==
    TrackCall("daw_track_set_name", id, has_name,
              [G EXCEPT !.tracks[SlotOf(id)].name = name])

\* daw_track_set_vol, daw_engine.c:449-456
daw_track_set_vol(id, v) ==
    TrackCall("daw_track_set_vol", id, TRUE,
              [G EXCEPT !.tracks[SlotOf(id)].vol = clampf(v, 0, F(2))])

\* daw_track_set_pan, daw_engine.c:458-465
daw_track_set_pan(id, p) ==
    TrackCall("daw_track_set_pan", id, TRUE,
              [G EXCEPT !.tracks[SlotOf(id)].pan = clampf(p, -F(1), F(1))])

\* daw_track_set_mute, daw_engine.c:467-474
daw_track_set_mute(id, v) ==
    TrackCall("daw_track_set_mute", id, TRUE,
              [G EXCEPT !.tracks[SlotOf(id)].muted = v])

\* daw_track_set_solo, daw_engine.c:476-484
daw_track_set_solo(id, v) ==
    TrackCall("daw_track_set_solo", id, TRUE,
              refresh_solo([G EXCEPT !.tracks[SlotOf(id)].soloed = v]))

\* daw_track_set_armed, daw_engine.c:486-493
daw_track_set_armed(id, v) ==
    TrackCall("daw_track_set_armed", id, TRUE,
              [G EXCEPT !.tracks[SlotOf(id)].armed = v])

(* ------------------------------------------------------------------------ *)
(* Clip load                                                                *)
(* ------------------------------------------------------------------------ *)

\* The decoder collaborator: what each path decodes to.  length is what
\* ma_decoder_get_length_in_pcm_frames reports, pcm the interleaved frames
\* ma_decoder_read_pcm_frames can deliver.  A path outside the domain does
\* not open.  "a.wav" has two frames and reports them; "stream.wav" has the
\* same frames and reports length 0 (unknown); "empty.wav" reports length 0
\* and yields no frame; "cut.wav" reports two frames and yields none.
FilePcm == << <<8000, 8000>>, <<-4000, 4000>> >>
Files ==
    [p \in {"a.wav", "stream.wav", "empty.wav", "cut.wav"} |->
        [length |-> IF p \in {"a.wav", "cut.wav"} THEN 2 ELSE 0,
         pcm |-> IF p \in {"a.wav", "stream.wav"} THEN FilePcm ELSE <<>>]]

Min(a, b) == IF a < b THEN a ELSE b

\* the clip daw_track_load_file stores, daw_engine.c:510-538
LoadedClip(g, file) ==
    LET total_frames == IF file.length = 0 THEN g.sr * 30 ELSE file.length
        read == Min(total_frames, Len(file.pcm))
    IN  [l |-> [f \in 1 .. read |-> file.pcm[f][1]],
         r |-> [f \in 1 .. read |-> file.pcm[f][2]],
         n |-> read,
         start_beat |-> 0,
         len_beats |-> DDiv(D(read), DDiv(DMul(D(g.sr), D(60)), g.bpm)),
         active |-> TRUE,
         frees |-> 0]

\* a load that returns OutOfMemory with the mutex still locked
LoadUnlocksButOom(res) ==
    IF res = DAW_ERR_OUT_OF_MEMORY THEN "load" ELSE "free"

\* the mutex after a failing return of daw_track_load_file that follows
\* LOCK: every such return is preceded by UNLOCK, daw_engine.c:500, 501,
\* 507, 515, 523
LoadUnlocks(res) == "free"

\* a return of daw_track_load_file with an error found under the lock
LoadFails(res) ==
    /\ ret' = Ret("daw_track_load_file", res)
    /\ ctl' = "returned"
    /\ lock' = LoadUnlocks(res)
    /\ CbUnchanged
    /\ UNCHANGED <<G, next_id, dev, issued, dead>>

\* daw_track_load_file, daw_engine.c:495-545.  path is "NULL" for a NULL
\* pointer; mem is "ok", or names the malloc that fails ("ilv", "lr").
daw_track_load_file(id, path, mem) ==
    /\ ctl = "idle"
    /\ IF NeedInitFails(G)
       THEN Returns("daw_track_load_file", DAW_ERR_NOT_INIT)
       ELSE IF path = "NULL"
            THEN Returns("daw_track_load_file", DAW_ERR_INVALID_PARAM)
       ELSE /\ lock = "free"
            /\ IF find_track(G, id) = -1
               THEN LoadFails(DAW_ERR_INVALID_TRACK)
               ELSE IF G.tracks[SlotOf(id)].n_clips >= DAW_MAX_CLIPS_PER_TRACK
                    THEN LoadFails(DAW_ERR_CLIP_FULL)
               ELSE IF path \notin DOMAIN Files
                    THEN LoadFails(DAW_ERR_FILE_NOT_FOUND)
               ELSE IF mem # "ok"
                    THEN LoadFails(DAW_ERR_OUT_OF_MEMORY)
               ELSE LET i == SlotOf(id)
                        t == G.tracks[i]
                    IN  Commits("daw_track_load_file",
                                [G EXCEPT
                                    !.tracks[i].clips[t.n_clips] =
                                        LoadedClip(G, Files[path]),
                                    !.tracks[i].n_clips = t.n_clips + 1])

(* ------------------------------------------------------------------------ *)
(* A second control thread                                                  *)
(* ------------------------------------------------------------------------ *)

\* Calls of a second control thread that succeed, each one step from NEED_INIT
\* to its return: G.ready is read as true and the mutex is taken when it is
\* free, wherever the first control thread is -- daw_shutdown holds no lock
\* and clears G.ready only with its memset, daw_engine.c:246-262.  The result
\* the second thread receives is not recorded.
PeerUnchanged ==
    /\ CbUnchanged
    /\ UNCHANGED <<next_id, lock, dev, ctl, ret, issued>>

\* daw_track_destroy, daw_engine.c:402-416, called by the second thread
peer_track_destroy(id) ==
    /\ ~NeedInitFails(G)
    /\ lock = "free"
    /\ find_track(G, id) # -1
    /\ G' = DestroyedScene(G, find_track(G, id))
    /\ dead' = dead \cup {id}
    /\ PeerUnchanged

\* daw_track_load_file, daw_engine.c:495-545, called by the second thread
peer_track_load_file(id, path) ==
    /\ ~NeedInitFails(G)
    /\ lock = "free"
    /\ find_track(G, id) # -1
    /\ G.tracks[find_track(G, id)].n_clips < DAW_MAX_CLIPS_PER_TRACK
    /\ path \in DOMAIN Files
    /\ LET i == find_track(G, id)
           t == G.tracks[i]
       IN  G' = [G EXCEPT !.tracks[i].clips[t.n_clips] =
                              LoadedClip(G, Files[path]),
                          !.tracks[i].n_clips = t.n_clips + 1]
    /\ dead' = dead
    /\ PeerUnchanged

(* ------------------------------------------------------------------------ *)
(* The audio callback                                                       *)
(* ------------------------------------------------------------------------ *)

\* a gate that lets a paused transport through
GateSilentStoppedOnly(ready, state) ==
    ~ready \/ state = DAW_STATE_STOPPED

\* the pre-mix gate, daw_engine.c:121: TRUE when the callback emits silence
GateSilent(ready, state) ==
    ~ready \/ (state # DAW_STATE_PLAYING /\ state # DAW_STATE_RECORDING)

\* the timing constants of one period, daw_engine.c:133-135
Spb(g) == DDiv(D(60), g.bpm)
Spf(g) == DDiv(D(1), D(g.sr))
Bpf(g) == DDiv(Spf(g), Spb(g))

\* a track filter that forgets the mute flag
TrackAudibleIgnoringMute(g, t) ==
    /\ t.active
    /\ ~(g.any_solo /\ ~t.soloed)

\* the track filter of the mix loop, daw_engine.c:140-141
TrackAudible(g, t) ==
    /\ t.active
    /\ ~t.muted
    /\ ~(g.any_solo /\ ~t.soloed)

\* the beat a frame of the period plays, daw_engine.c:157-162
BeatAt(g, f) ==
    LET beat_at == g.pos_beats + DMul(D(f), Bpf(g))
    IN  IF g.loop_on /\ beat_at >= g.loop_end
        THEN g.loop_start + DFmod(beat_at - g.loop_start,
                                  g.loop_end - g.loop_start)
        ELSE beat_at

\* the clip frame that frame f of the period reads, or -1 when the inner
\* loop skips the frame, daw_engine.c:154,164-168
FrameIndex(g, cl, f) ==
    LET beat_at == BeatAt(g, f)
        cl_end == cl.start_beat + cl.len_beats
    IN  IF beat_at < cl.start_beat \/ beat_at >= cl_end THEN -1
        ELSE LET offset == DDiv(beat_at - cl.start_beat, cl.len_beats)
                 fi == DMul(offset, D(cl.n)) \div DUnit
             IN  IF fi >= cl.n THEN -1 ELSE fi

\* The clip and frame loops of one track, daw_engine.c:150-177, from step k
\* on; step k is frame k % nf of clip k \div nf.  acc holds the track's
\* sums into mix_l and mix_r, its peak followers tpl and tpr, and whether
\* any sample was added.
RECURSIVE TrackWalk(_, _, _, _, _, _, _)
TrackWalk(g, t, nf, gl, gr, k, acc) ==
    IF k >= t.n_clips * nf THEN acc
    ELSE LET cl == t.clips[k \div nf]
             f == k % nf
             fi == IF cl.active THEN FrameIndex(g, cl, f) ELSE -1
         IN  IF fi = -1 THEN TrackWalk(g, t, nf, gl, gr, k + 1, acc)
             ELSE LET sl == FMul(cl.l[fi + 1], gl)
                      sr == FMul(cl.r[fi + 1], gr)
                  IN  TrackWalk(g, t, nf, gl, gr, k + 1,
                          [l |-> [acc.l EXCEPT ![f] = @ + sl],
                           r |-> [acc.r EXCEPT ![f] = @ + sr],
                           tpl |-> peak_update(acc.tpl, sl),
                           tpr |-> peak_update(acc.tpr, sr),
                           hit |-> TRUE])

\* one track of the mix loop, daw_engine.c:143-180
TrackMix(g, t, nf) ==
    LET gains == pan_gains(t.pan)
        gl == FMul(gains[1], t.vol)
        gr == FMul(gains[2], t.vol)
    IN  TrackWalk(g, t, nf, gl, gr, 0,
                  [l |-> [f \in 0 .. (nf - 1) |-> 0],
                   r |-> [f \in 0 .. (nf - 1) |-> 0],
                   tpl |-> 0, tpr |-> 0, hit |-> FALSE])

\* what is recorded of a track that added a sample to the mix
Contributor(g, ti) ==
    [slot |-> ti, id |-> g.tracks[ti].id, type |-> g.tracks[ti].type,
     active |-> g.tracks[ti].active, muted |-> g.tracks[ti].muted,
     soloed |-> g.tracks[ti].soloed, solo_any |-> SoloScan(g)]

\* The track loop, daw_engine.c:138-181, from slot ti on.  m holds the scene
\* (whose track peaks the loop writes), mix_l, mix_r and the slots that
\* added a sample to them.
RECURSIVE MixFrom(_, _, _)
MixFrom(m, nf, ti) ==
    IF ti >= DAW_MAX_TRACKS THEN m
    ELSE LET t == m.g.tracks[ti]
         IN  IF ~TrackAudible(m.g, t) THEN MixFrom(m, nf, ti + 1)
             ELSE LET w == TrackMix(m.g, t, nf)
                  IN  MixFrom(
                          [g |-> [m.g EXCEPT !.tracks[ti].peak_l = w.tpl,
                                             !.tracks[ti].peak_r = w.tpr],
                           mix_l |-> [f \in 0 .. (nf - 1) |->
                                         m.mix_l[f] + w.l[f]],
                           mix_r |-> [f \in 0 .. (nf - 1) |->
                                         m.mix_r[f] + w.r[f]],
                           contrib |-> IF w.hit
                                       THEN m.contrib \cup {Contributor(m.g, ti)}
                                       ELSE m.contrib],
                          nf, ti + 1)

\* the whole mix of one period, daw_engine.c:127-181
Mix(g, nf) ==
    MixFrom([g |-> g,
             mix_l |-> [f \in 0 .. (nf - 1) |-> 0],
             mix_r |-> [f \in 0 .. (nf - 1) |-> 0],
             contrib |-> {}],
            nf, 0)

\* one output sample, daw_engine.c:186-187
MasterSample(x, mv) == clampf(FMul(x, mv), -F(1), F(1))

\* the interleaved output of the master stage, daw_engine.c:184-189
MasterOut(m, mv, nf) ==
    [f \in 1 .. nf |->
        <<MasterSample(m.mix_l[f - 1], mv), MasterSample(m.mix_r[f - 1], mv)>>]

\* a master peak follower run over channel ch of the output,
\* daw_engine.c:190-191
RECURSIVE PeakRun(_, _, _, _)
PeakRun(p, o, ch, f) ==
    IF f > Len(o) THEN p
    ELSE PeakRun(peak_update(p, o[f][ch]), o, ch, f + 1)

\* an advance that snaps only once the playhead is past the loop end
AdvanceSnapLate(g, nf) ==
    LET delta_secs == DMul(D(nf), Spf(g))
        secs == g.pos_secs + delta_secs
        beats == g.pos_beats + DDiv(delta_secs, Spb(g))
    IN  IF g.loop_on /\ beats > g.loop_end
        THEN [g EXCEPT !.pos_beats = g.loop_start,
                       !.pos_secs = DMul(g.loop_start, Spb(g))]
        ELSE [g EXCEPT !.pos_beats = beats, !.pos_secs = secs]

\* an advance by the configured period instead of the frames delivered
AdvanceByBuffer(g, nf) ==
    LET delta_secs == DMul(D(g.buf_frames), Spf(g))
        secs == g.pos_secs + delta_secs
        beats == g.pos_beats + DDiv(delta_secs, Spb(g))
    IN  IF g.loop_on /\ beats >= g.loop_end
        THEN [g EXCEPT !.pos_beats = g.loop_start,
                       !.pos_secs = DMul(g.loop_start, Spb(g))]
        ELSE [g EXCEPT !.pos_beats = beats, !.pos_secs = secs]

\* the playhead advance and the loop snap, daw_engine.c:194-202
Advance(g, nf) ==
    LET delta_secs == DMul(D(nf), Spf(g))
        secs == g.pos_secs + delta_secs
        beats == g.pos_beats + DDiv(delta_secs, Spb(g))
    IN  IF g.loop_on /\ beats >= g.loop_end
        THEN [g EXCEPT !.pos_beats = g.loop_start,
                       !.pos_secs = DMul(g.loop_start, Spb(g))]
        ELSE [g EXCEPT !.pos_beats = beats, !.pos_secs = secs]

\* the scene after the locked part of the callback, daw_engine.c:131-204
MixPass(g, nf) ==
    LET m == Mix(g, nf)
        o == MasterOut(m, g.master_vol, nf)
    IN  Advance([m.g EXCEPT
                    !.master_peak_l = PeakRun(g.master_peak_l, o, 1, 1),
                    !.master_peak_r = PeakRun(g.master_peak_r, o, 2, 1)],
                nf)

CtlUnchanged == UNCHANGED <<next_id, dev, ctl, ret, issued, dead>>

\* the length of the accumulators float mix_l[], mix_r[], daw_engine.c:126
MixLen == DAW_DEFAULT_BUFFER
\* the highest index of mix_l and mix_r that a callback of nf frames
\* accesses: the memsets of nf floats, daw_engine.c:127-128, and the loops
\* over f < nf, daw_engine.c:156-173 and 185-187
LastMixIndex(nf) == nf - 1

\* audio_cb from its entry to the pre-mix gate, daw_engine.c:115-129: the
\* backend invokes it with nf frames; G.ready and G.state are read without
\* the lock
audio_cb_gate(nf) ==
    /\ dev = "running"
    /\ cb.pc = "idle"
    /\ IF GateSilent(G.ready, G.state)
       THEN /\ out' = [f \in 1 .. nf |-> <<0, 0>>]
            /\ cb' = [CbIdle EXCEPT !.pc = "done", !.nf = nf,
                                    !.gate_ready = G.ready,
                                    !.gate_state = G.state]
            /\ n_cb' = n_cb
       ELSE /\ n_cb < MaxCallbacks
            /\ out' = out
            /\ cb' = [CbIdle EXCEPT !.pc = "gated", !.nf = nf,
                                    !.gate_ready = G.ready,
                                    !.gate_state = G.state,
                                    !.mix_last = LastMixIndex(nf)]
            /\ n_cb' = n_cb + 1
    /\ UNCHANGED <<G, lock>>
    /\ CtlUnchanged

\* pthread_mutex_lock(&G.lock), daw_engine.c:131
audio_cb_lock ==
    /\ cb.pc = "gated"
    /\ lock \in {"free", "none"}
    /\ lock' = IF lock = "none" THEN "none" ELSE "cb"
    /\ cb' = [cb EXCEPT !.pc = "locked", !.lock_state = G.state,
                        !.lock_alive = (lock # "none")]
    /\ UNCHANGED <<G, out, n_cb>>
    /\ CtlUnchanged

\* what a mix pass may leave in the output buffer when it runs on a scene
\* whose mutex has been destroyed (undefined behaviour): anything
UndefinedOut(nf) ==
    {[f \in 1 .. nf |-> <<v, v>>] : v \in {0, FOne}}

\* The locked part of audio_cb and the unlock, daw_engine.c:133-204.  A
\* pass that accesses mix_l or mix_r beyond their length (undefined
\* behaviour) leaves anything in the output and the playhead advanced or
\* not.
audio_cb_mix ==
    /\ cb.pc = "locked"
    /\ IF lock = "none"
       THEN /\ G' = G
            /\ out' \in UndefinedOut(cb.nf)
            /\ lock' = lock
            /\ cb' = [cb EXCEPT !.pc = "done", !.mixed = TRUE,
                                !.lock_alive = FALSE]
       ELSE IF cb.mix_last >= MixLen
       THEN /\ G' \in {G, Advance(G, cb.nf)}
            /\ out' \in UndefinedOut(cb.nf)
            /\ lock' = "free"
            /\ cb' = [cb EXCEPT !.pc = "done", !.mixed = TRUE,
                                !.pre = TransportOf(G),
                                !.post = TransportOf(G')]
       ELSE /\ G' = MixPass(G, cb.nf)
            /\ out' = MasterOut(Mix(G, cb.nf), G.master_vol, cb.nf)
            /\ lock' = "free"
            /\ cb' = [cb EXCEPT !.pc = "done", !.mixed = TRUE,
                                !.contrib = Mix(G, cb.nf).contrib,
                                !.freed_read =
                                    (ClipsFreed /\ Mix(G, cb.nf).contrib # {}),
                                !.pre = TransportOf(G),
                                !.post = TransportOf(G')]
    /\ n_cb' = n_cb
    /\ CtlUnchanged

\* audio_cb has returned and the backend has taken the buffer
audio_cb_return ==
    /\ cb.pc = "done"
    /\ cb' = CbIdle
    /\ out' = <<>>
    /\ UNCHANGED <<G, lock, n_cb>>
    /\ CtlUnchanged

(* ------------------------------------------------------------------------ *)
(* Inputs                                                                   *)
(* ------------------------------------------------------------------------ *)

Config(sr, buf, bpm) ==
    [null |-> FALSE, sample_rate |-> sr, bit_depth |-> 24,
     buffer_frames |-> buf, bpm |-> bpm]
NullConfig ==
    [null |-> TRUE, sample_rate |-> 0, bit_depth |-> 0, buffer_frames |-> 0,
     bpm |-> 0]
Loop(en, s, e) == [en |-> en, s |-> s, e |-> e]

\* configurations with 2 frames per second, at 60 or 120 bpm (bpm 0 selects
\* the default of 120)
Configs == {Config(2, 2, D(60)), Config(2, 2, 0)}
Backends == {"ok", "init_fails", "start_fails"}
FrameCounts == {1, 2}
SeekBeats == {-D(1), 0, D(1), D(3)}
Bpms == {0, D(60), D(120), D(1000)}
Loops == {Loop(en, s, e) : en \in BOOLEAN, s \in {0, D(1)}, e \in {0, D(2)}}
MasterVolumes == {-F(1), F(1), F(2), F(3)}
TrackTypes == {DAW_TRACK_AUDIO, DAW_TRACK_MIDI, DAW_TRACK_BUS,
               DAW_TRACK_MASTER}
Ids == 0 .. MaxCreates
Names == {<<"Lead", 0>>}
TrackVolumes == {-F(1), F(1), F(3)}
TrackPans == {-F(2), 0, F(2)}
Paths == {"NULL", "a.wav", "missing.wav"}
Mallocs == {"ok", "ilv", "lr"}

(* ------------------------------------------------------------------------ *)
(* Steps, by the inputs they draw                                           *)
(* ------------------------------------------------------------------------ *)

Lifecycle(cfgs, backends) ==
    \/ \E cfg \in cfgs, b \in backends : daw_init(cfg, b)
    \/ daw_init_ready
    \/ daw_shutdown
    \/ daw_shutdown_halt
    \/ daw_shutdown_free
    \/ daw_shutdown_wipe
    \/ caller_resumes

Start ==
    \/ daw_play
    \/ daw_record

Halt ==
    \/ daw_stop
    \/ daw_pause

Playback == Start \/ Halt

Timeline(beats, bpms, loops) ==
    \/ \E b \in beats : daw_seek(b)
    \/ \E b \in bpms : daw_set_bpm(b)
    \/ \E lp \in loops : daw_set_loop(lp.en, lp.s, lp.e)

Master(vols, ptrs) ==
    \/ \E p \in ptrs : daw_get_state(p)
    \/ \E v \in vols : daw_set_master_volume(v)
    \/ \E p \in ptrs : daw_get_master_peaks(p)

TrackTable(types, ids, ptrs) ==
    \/ \E t \in types, p \in ptrs : daw_track_create(t, p)
    \/ \E id \in ids : daw_track_destroy(id)

TrackFlags(ids, flags) ==
    \/ \E id \in ids, v \in flags : daw_track_set_mute(id, v)
    \/ \E id \in ids, v \in flags : daw_track_set_solo(id, v)

TrackFields(ids, ptrs, vols, pans, flags) ==
    \/ \E id \in ids, p \in ptrs : daw_track_info(id, p)
    \/ \E id \in ids, p \in ptrs, n \in Names : daw_track_set_name(id, p, n)
    \/ \E id \in ids, v \in vols : daw_track_set_vol(id, v)
    \/ \E id \in ids, v \in pans : daw_track_set_pan(id, v)
    \/ \E id \in ids, v \in flags : daw_track_set_armed(id, v)

Peer(ids, paths) ==
    \/ \E id \in ids : peer_track_destroy(id)
    \/ \E id \in ids, p \in paths : peer_track_load_file(id, p)

ClipLoad(ids, paths, mallocs) ==
    \E id \in ids, p \in paths, m \in mallocs : daw_track_load_file(id, p, m)

Callback(nfs) ==
    \/ \E nf \in nfs : audio_cb_gate(nf)
    \/ audio_cb_lock
    \/ audio_cb_mix
    \/ audio_cb_return

(* ------------------------------------------------------------------------ *)
(* Specifications                                                           *)
(* ------------------------------------------------------------------------ *)

\* every operation with every input enumerated above
Next ==
    \/ Lifecycle(Configs \cup {NullConfig}, Backends)
    \/ Playback
    \/ Timeline(SeekBeats, Bpms, Loops)
    \/ Master(MasterVolumes, BOOLEAN)
    \/ TrackTable(TrackTypes, Ids, BOOLEAN)
    \/ TrackFlags(Ids, BOOLEAN)
    \/ TrackFields(Ids, BOOLEAN, TrackVolumes, TrackPans, BOOLEAN)
    \/ ClipLoad(Ids, Paths, Mallocs)
    \/ Callback(FrameCounts)
Spec == Init /\ [][Next]_vars

\* The control API alone: every operation, in every lifecycle state, with
\* valid and null pointer arguments, the track operations on the first track
\* created.
NextApi ==
    \/ Lifecycle({Config(2, 2, 0)}, Backends)
    \/ Playback
    \/ Timeline({D(1)}, {D(60)}, {Loop(TRUE, 0, D(2))})
    \/ Master({F(1)}, BOOLEAN)
    \/ TrackTable({DAW_TRACK_AUDIO}, {1, 2}, BOOLEAN)
    \/ TrackFlags({1}, {TRUE})
    \/ TrackFields({1}, BOOLEAN, {F(1)}, {0}, {TRUE})
    \/ ClipLoad({1}, Paths, {"ok"})
SpecApi == Init /\ [][NextApi]_vars

\* The transport against the realtime thread, with no tracks: playback
\* state, seek, tempo and loop writes interleaved with callbacks.
NextTransport ==
    \/ Lifecycle({Config(2, 2, 0)}, {"ok"})
    \/ Playback
    \/ Timeline({D(3)}, {D(60)}, {Loop(TRUE, D(1), D(2))})
    \/ Callback(FrameCounts)
SpecTransport == Init /\ [][NextTransport]_vars

\* Silence: one audio track with a clip, every playback state, callbacks
\* before and after the engine is ready.
NextSilence ==
    \/ Lifecycle({Config(2, 2, 0)}, {"ok"})
    \/ Playback
    \/ TrackTable({DAW_TRACK_AUDIO}, {1}, {TRUE})
    \/ ClipLoad({1}, {"a.wav"}, {"ok"})
    \/ Callback({2})
SpecSilence == Init /\ [][NextSilence]_vars

\* Mute and solo: two audio tracks with clips while the transport runs.
NextSolo ==
    \/ Lifecycle({Config(2, 2, 0)}, {"ok"})
    \/ daw_play
    \/ TrackTable({DAW_TRACK_AUDIO}, {1, 2}, {TRUE})
    \/ TrackFlags({1, 2}, BOOLEAN)
    \/ ClipLoad({1, 2}, {"a.wav"}, {"ok"})
    \/ Callback({2})
SpecSolo == Init /\ [][NextSolo]_vars

\* The playhead: one audio track with a clip, two tempos, periods of one
\* and two frames, the transport running.
NextPlayhead ==
    \/ Lifecycle({Config(2, 2, 0), Config(2, 2, D(60))}, {"ok"})
    \/ Start
    \/ TrackTable({DAW_TRACK_AUDIO}, {1}, {TRUE})
    \/ ClipLoad({1}, {"a.wav"}, {"ok"})
    \/ Callback(FrameCounts)
SpecPlayhead == Init /\ [][NextPlayhead]_vars

\* Track types: one track of any type with a clip while the transport runs.
NextTypes ==
    \/ Lifecycle({Config(2, 2, 0)}, {"ok"})
    \/ Start
    \/ TrackTable(TrackTypes, {1}, {TRUE})
    \/ ClipLoad({1}, {"a.wav"}, {"ok"})
    \/ Callback({2})
SpecTypes == Init /\ [][NextTypes]_vars

\* Gains: the volume and pan of a track and the master volume, written with
\* values below, inside and above their ranges and with NaN.
GainValues == {-F(1), 0, F(1), F(2), F(3), NaN}
NextGain ==
    \/ Lifecycle({Config(2, 2, 0)}, {"ok"})
    \/ Master(GainValues, {TRUE})
    \/ TrackTable({DAW_TRACK_AUDIO}, {1}, {TRUE})
    \/ TrackFields({1}, {TRUE}, GainValues, GainValues, {TRUE})
SpecGain == Init /\ [][NextGain]_vars

\* Failing backends: daw_init with a device that fails to open or to start,
\* between sessions with playback, a track and callbacks.
NextInit ==
    \/ Lifecycle(Configs, Backends)
    \/ Playback
    \/ Master({F(2)}, BOOLEAN)
    \/ TrackTable({DAW_TRACK_AUDIO}, {1}, {TRUE})
    \/ Callback({1})
SpecInit == Init /\ [][NextInit]_vars

\* Clip loads: every outcome of daw_track_load_file on two tracks, while the
\* transport plays and callbacks take the lock.
NextLoad ==
    \/ Lifecycle({Config(2, 2, 0)}, {"ok"})
    \/ daw_play
    \/ TrackTable({DAW_TRACK_AUDIO}, {1}, {TRUE})
    \/ ClipLoad({1, 2}, Paths, Mallocs)
    \/ Callback({2})
SpecLoad == Init /\ [][NextLoad]_vars

\* The track table: creates of every type with a valid out pointer and
\* destroys, over tracks whose flags were set and that hold a clip.
NextTable ==
    \/ Lifecycle({Config(2, 2, 0)}, {"ok"})
    \/ TrackTable(TrackTypes, {1, 2, 3}, {TRUE})
    \/ TrackFlags({1, 2}, {TRUE})
    \/ ClipLoad({1}, {"a.wav"}, {"ok"})
SpecTable == Init /\ [][NextTable]_vars

\* Arguments: the transport and master writes with arguments below, on, inside
\* and above the limits of their ranges, and with NaN.
ArgBeats == {-D(1), 0, D(1), D(3), NaN}
ArgBpms == {0, 2, D(1), D(60), D(1000), NaN}
ArgLoops ==
    {Loop(en, s, e) : en \in BOOLEAN, s \in {-D(1), D(1), NaN},
                      e \in {0, D(1), D(2), NaN}}
NextArgs ==
    \/ Lifecycle({Config(2, 2, 0)}, {"ok"})
    \/ Start
    \/ Timeline(ArgBeats, ArgBpms, ArgLoops)
    \/ Master(GainValues, {TRUE})
SpecArgs == Init /\ [][NextArgs]_vars

\* Loop start: loop regions that daw_set_loop accepts, one of them starting
\* before beat 0, with a seek, a tempo change and the callback.
LoopRegions ==
    {Loop(TRUE, -D(1), D(1)), Loop(TRUE, 0, D(1)), Loop(FALSE, 0, D(2))}
NextLoopStart ==
    \/ Lifecycle({Config(2, 2, 0)}, {"ok"})
    \/ Playback
    \/ Timeline({D(1)}, {D(60)}, LoopRegions)
    \/ Callback(FrameCounts)
SpecLoopStart == Init /\ [][NextLoopStart]_vars

\* Configuration: daw_init with configurations whose tempo is above 999 or
\* between 0 and 1 and whose sample rate is 0, next to an ordinary one,
\* with daw_set_bpm. The callback is left out: its 1 / sr is not defined
\* for a sample rate of 0.
TempoConfigs ==
    {Config(2, 2, D(60)), Config(2, 2, D(5000)), Config(2, 2, 2),
     Config(0, 2, 0)}
NextConfig ==
    \/ Lifecycle(TempoConfigs, Backends)
    \/ Playback
    \/ \E b \in {0, D(1), D(120), D(1000)} : daw_set_bpm(b)
    \/ Master({F(2)}, BOOLEAN)
SpecConfig == Init /\ [][NextConfig]_vars

\* Decoder: loads of every file the decoder collaborator knows, with every
\* malloc outcome, on a track that is created, destroyed and played.
NextDecode ==
    \/ Lifecycle(Configs, {"ok"})
    \/ Start
    \/ TrackTable({DAW_TRACK_AUDIO}, {1}, {TRUE})
    \/ ClipLoad({1, 2}, DOMAIN Files, Mallocs)
    \/ Callback({2})
SpecDecode == Init /\ [][NextDecode]_vars

\* Meters: a playing track with a clip whose samples are within -1 .. +1,
\* track volumes within 0 .. 2, pans within -1 .. +1 and master volumes
\* within 0 .. 2.
NextMeter ==
    \/ Lifecycle({Config(2, 2, 0)}, {"ok"})
    \/ daw_play
    \/ daw_track_create(DAW_TRACK_AUDIO, TRUE)
    \/ ClipLoad({1}, {"a.wav"}, {"ok"})
    \/ \E v \in {0, F(1), F(2)} : daw_track_set_vol(1, v)
    \/ \E pn \in {-F(1), 0, F(1)} : daw_track_set_pan(1, pn)
    \/ \E v \in {F(1), F(2)} : daw_set_master_volume(v)
    \/ Callback({2})
SpecMeter == Init /\ [][NextMeter]_vars

\* Period size: an engine initialized with a period of one frame more than
\* DAW_DEFAULT_BUFFER, whose backend delivers periods of 2 frames and full
\* periods.
LongPeriod == DAW_DEFAULT_BUFFER + 1
NextPeriod ==
    \/ Lifecycle({Config(2, LongPeriod, 0)}, {"ok"})
    \/ Playback
    \/ daw_track_create(DAW_TRACK_AUDIO, TRUE)
    \/ ClipLoad({1}, {"a.wav"}, {"ok"})
    \/ Callback({2, LongPeriod})
SpecPeriod == Init /\ [][NextPeriod]_vars

\* Buffers: two control threads.  The first creates, loads, destroys, plays
\* and shuts down; the second destroys tracks and loads clips at any point
\* of the first one's calls.
NextHeap ==
    \/ Lifecycle({Config(2, 2, 0)}, {"ok"})
    \/ daw_play
    \/ TrackTable({DAW_TRACK_AUDIO}, {1, 2}, {TRUE})
    \/ ClipLoad({1, 2}, {"a.wav"}, {"ok"})
    \/ Peer({1, 2}, {"a.wav"})
    \/ Callback({2})
SpecHeap == Init /\ [][NextHeap]_vars

(* ------------------------------------------------------------------------ *)
(* Properties                                                               *)
(* ------------------------------------------------------------------------ *)

Running(state) == state \in {DAW_STATE_PLAYING, DAW_STATE_RECORDING}
AllZero(o) == \A f \in 1 .. Len(o) : o[f] = <<0, 0>>
SomeClipAt(g) == \E i \in Slots : g.tracks[i].active /\ g.tracks[i].n_clips > 0

C2_MixesOnStateAtLock ==
    cb.mixed => Running(cb.lock_state)

\* C3: once stop has returned OK, and as long as the caller makes no other
\* call, the transport is Stopped with the playhead at beat 0 and second 0.
C3_StoppedAtZeroAfterStop ==
    (ret.op = "daw_stop" /\ ret.res = DAW_OK)
        => (/\ G.state = DAW_STATE_STOPPED
            /\ G.pos_beats = 0
            /\ G.pos_secs = 0)

\* a control call returns in this step
CallReturns == ctl # "returned" /\ ctl' = "returned"
\* daw_init has returned OK and daw_shutdown has not returned since
EngineUp == InShutdown \/ (dev = "running" /\ ctl # "init")
SceneUnchanged == UNCHANGED <<G, next_id, lock, dev, issued, dead>>

\* C4: daw_init returns AlreadyInit exactly when the engine is initialized,
\* every other call returns NotInit exactly when it is not, and a call
\* that returns either of the two changes nothing.
C4_ReadyGatesApi ==
    [][CallReturns =>
          IF ret'.op = "daw_init"
          THEN /\ (ret'.res = DAW_ERR_ALREADY_INIT) <=> EngineUp
               /\ (ret'.res = DAW_ERR_ALREADY_INIT) => SceneUnchanged
          ELSE /\ (ret'.res = DAW_ERR_NOT_INIT) <=> ~EngineUp
               /\ (ret'.res = DAW_ERR_NOT_INIT) => SceneUnchanged]_vars

\* a clip load is refused with NotInit after a shutdown that followed
\* track creation
C4_Witness ==
    /\ ret.op = "daw_track_load_file"
    /\ ret.res = DAW_ERR_NOT_INIT
    /\ lock = "none"
    /\ next_id > 1

\* C5: the ids returned by daw_track_create are positive and strictly
\* increasing over the whole process, across daw_shutdown and daw_init, and
\* the id of a destroyed track resolves to no track.
C5_IdsNeverReused ==
    /\ \A k \in 1 .. Len(issued) : issued[k] > 0
    /\ \A j, k \in 1 .. Len(issued) : j < k => issued[j] < issued[k]
    /\ \A id \in dead : find_track(G, id) = -1

\* the slot of the destroyed first track holds a track created later
C5_Witness ==
    /\ Len(issued) = 3
    /\ 1 \in dead
    /\ G.tracks[0].active
    /\ G.tracks[0].id = 3

\* C6: a track adds samples to a callback's mix only if it is active, not
\* muted, and either soloed or no active track is soloed.
C6_MuteAndSolo ==
    \A c \in cb.contrib :
        /\ c.active
        /\ ~c.muted
        /\ c.soloed \/ ~c.solo_any

\* the soloed track alone was mixed while another active, unmuted track
\* with a clip was passed over
C6_Witness ==
    /\ cb.pc = "done"
    /\ Cardinality(cb.contrib) = 1
    /\ \A c \in cb.contrib : c.soloed
    /\ \A i \in Slots :
           /\ G.tracks[i].active
           /\ G.tracks[i].n_clips > 0
           /\ ~G.tracks[i].muted

\* C7: only tracks of type audio add samples to a callback's mix.
C7_OnlyAudioTracksMix ==
    \A c \in cb.contrib : c.type = DAW_TRACK_AUDIO

\* C8, as claimed: with the loop enabled on [a, b], the playhead lies in
\* [a, b) after every mix pass.
C8_PlayheadInLoop ==
    (cb.mixed /\ cb.pre.loop_on)
        => (/\ cb.pre.loop_start <= cb.post.pos_beats
            /\ cb.post.pos_beats < cb.pre.loop_end)

\* C8, amended: with the loop enabled on [a, b], the playhead is below b
\* after every mix pass, and at or above a if it was so before the pass.
C8_PlayheadBelowLoopEnd ==
    (cb.mixed /\ cb.pre.loop_on)
        => (/\ cb.post.pos_beats < cb.pre.loop_end
            /\ cb.pre.pos_beats >= cb.pre.loop_start
                   => cb.post.pos_beats >= cb.pre.loop_start)

\* a mix pass has snapped a playhead that was inside the loop back to the
\* loop start
C8_Witness ==
    /\ cb.mixed
    /\ cb.pre.loop_on
    /\ cb.pre.pos_beats >= cb.pre.loop_start
    /\ cb.pre.pos_beats < cb.pre.loop_end
    /\ cb.post.pos_beats = cb.pre.loop_start
    /\ cb.post.pos_secs > 0

\* C9: while the engine is ready, position_seconds equals
\* position_beats x 60 / bpm.
C9_SecondsFollowBeats ==
    G.ready => G.pos_secs * G.bpm = G.pos_beats * D(60)

\* C10: with the loop disabled, a mix pass of nf frames moves the playhead
\* by nf / sample_rate seconds and nf x bpm / (sample_rate x 60) beats,
\* whatever tracks and clips exist.
C10_PlayheadAdvance ==
    (cb.mixed /\ ~cb.pre.loop_on)
        => (/\ (cb.post.pos_secs - cb.pre.pos_secs) * cb.pre.sr = D(cb.nf)
            /\ (cb.post.pos_beats - cb.pre.pos_beats) * cb.pre.sr * 60
                   = cb.nf * cb.pre.bpm)

\* the second mix pass in a row, of one frame, in Recording, with a clip
\* sounding
C10_Witness ==
    /\ cb.mixed
    /\ ~cb.pre.loop_on
    /\ cb.pre.state = DAW_STATE_RECORDING
    /\ cb.pre.pos_beats > 0
    /\ cb.nf = 1
    /\ cb.contrib # {}

InRange(x, lo, hi) == x # NaN /\ lo <= x /\ x <= hi

\* C11: while the engine is ready, the master volume is in [0, 2] and every
\* active track's volume is in [0, 2] and its pan in [-1, +1].
C11_GainsInRange ==
    G.ready =>
        /\ InRange(G.master_vol, 0, F(2))
        /\ \A i \in Slots :
               G.tracks[i].active =>
                   /\ InRange(G.tracks[i].vol, 0, F(2))
                   /\ InRange(G.tracks[i].pan, -F(1), F(1))

\* C12: no step of a callback locks the scene mutex after daw_shutdown has
\* destroyed it, and no mix pass reads clip PCM that daw_shutdown has freed;
\* once the device is closed no callback is in progress.
C12_NoCallbackAfterTeardown ==
    /\ cb.lock_alive
    /\ ~cb.freed_read
    /\ (cb.pc \in {"gated", "locked"}) => (lock # "none" /\ ~ClipsFreed)
    /\ dev = "closed" => cb.pc = "idle"

\* daw_shutdown is called while a callback that will read a clip has passed
\* the gate: the teardown waits at the device stop
C12_Witness ==
    /\ ctl = "halt"
    /\ cb.pc = "locked"
    /\ SomeClipAt(G)
    /\ G.pos_beats = 0

\* the scene a failed daw_init leaves behind: the fields written at
\* daw_engine.c:217-222 with G.ready false, the call no longer in progress
AfterFailedInit ==
    /\ ctl \in {"idle", "returned"}
    /\ ~G.ready
    /\ G.master_vol = F(1)
\* a daw_init call whose backend works gets as far as the running device
InitStarts ==
    /\ daw_init(Config(2, 2, 0), "ok")
    /\ ctl' = "init"
    /\ dev' = "running"

\* what holds of every state between a failed daw_init and the next one
FailedInitState ==
    /\ (ret.op = "daw_init" /\ ret.res = DAW_ERR_AUDIO_DEVICE)
           => AfterFailedInit
    /\ AfterFailedInit
           => /\ dev = "closed"
              /\ cb.pc = "idle"
              /\ (ctl = "idle" => ENABLED InitStarts)
    /\ ctl = "init" => ENABLED daw_init_ready
\* what holds of every step between a failed daw_init and the return of the
\* next one
FailedInitStep ==
    /\ (AfterFailedInit /\ CallReturns /\ ret'.op # "daw_init")
           => (ret'.res = DAW_ERR_NOT_INIT /\ SceneUnchanged)
    /\ (ctl = "init" /\ ctl' # "init")
           => (ret'.op = "daw_init" /\ ret'.res = DAW_OK /\ G'.ready)

\* C13: when daw_init has returned AudioDevice, the engine is not ready, the
\* device is closed and no callback is in progress, until the next daw_init;
\* every other call returns NotInit and changes nothing; and a daw_init with
\* a working backend can start, and then returns OK.
C13_FailedInitLeavesNothing ==
    []FailedInitState /\ [][FailedInitStep]_vars

\* daw_init has just failed at ma_device_start, after an earlier session in
\* which a track was created and callbacks mixed
C13_Witness ==
    /\ ret.op = "daw_init"
    /\ ret.res = DAW_ERR_AUDIO_DEVICE
    /\ next_id > 1
    /\ n_cb > 0
    /\ lock = "free"

\* the tracks of the scene, slot by slot
TracksUnchanged == \A i \in Slots : G'.tracks[i] = G.tracks[i]
\* exactly one track got one more clip, in its first unused slot, and kept
\* the clips it had
OneClipAdded ==
    \E i \in Slots :
        /\ G.tracks[i].active
        /\ G'.tracks[i].n_clips = G.tracks[i].n_clips + 1
        /\ G'.tracks[i].clips[G.tracks[i].n_clips].active
        /\ \A c \in ClipSlots :
               c # G.tracks[i].n_clips
                   => G'.tracks[i].clips[c] = G.tracks[i].clips[c]
        /\ \A j \in Slots \ {i} : G'.tracks[j] = G.tracks[j]

\* C14: a daw_track_load_file call that returns an error leaves every
\* track's clip count and clip slots unchanged, a call that returns OK adds
\* exactly one clip to one track, and in both cases the call leaves the
\* scene mutex as it found it: free, when the call got as far as locking it.
C14_FailedLoadChangesNothing ==
    [][(CallReturns /\ ret'.op = "daw_track_load_file") =>
          /\ IF ret'.res = DAW_OK THEN OneClipAdded ELSE TracksUnchanged
          /\ lock' = lock
          /\ ret'.res \in {DAW_OK, DAW_ERR_NOT_INIT, DAW_ERR_INVALID_PARAM,
                            DAW_ERR_INVALID_TRACK, DAW_ERR_CLIP_FULL,
                            DAW_ERR_FILE_NOT_FOUND, DAW_ERR_OUT_OF_MEMORY}
          /\ ret'.res \notin {DAW_ERR_NOT_INIT, DAW_ERR_INVALID_PARAM}
                 => lock' = "free"]_vars

\* a load on a track whose clip slots are all in use has returned ClipFull
C14_Witness ==
    /\ ret.op = "daw_track_load_file"
    /\ ret.res = DAW_ERR_CLIP_FULL
    /\ lock = "free"
    /\ \E i \in Slots :
           /\ G.tracks[i].active
           /\ G.tracks[i].n_clips = DAW_MAX_CLIPS_PER_TRACK

ActiveSlots(g) == {i \in Slots : g.tracks[i].active}
\* a track as daw_track_create must leave it
HasDefaults(t) ==
    /\ t.active
    /\ t.id > 0
    /\ t.vol = F(1)
    /\ t.pan = 0
    /\ ~t.muted /\ ~t.soloed /\ ~t.armed
    /\ t.n_clips = 0
    /\ \A c \in ClipSlots : ~t.clips[c].active
\* one inactive slot now holds a track with default fields and the id
\* returned, and no other slot changed
OneTrackAdded ==
    \E i \in Slots \ ActiveSlots(G) :
        /\ HasDefaults(G'.tracks[i])
        /\ G'.tracks[i].id = ret'.id
        /\ \A j \in Slots \ {i} : G'.tracks[j] = G.tracks[j]
\* the table count agrees with the table
CountMatchesTable ==
    /\ G.n_tracks = Cardinality(ActiveSlots(G))
    /\ G.n_tracks <= DAW_MAX_TRACKS
\* a daw_track_create call with a valid out pointer, on an initialized
\* engine, returns in this step
CreateReturns ==
    /\ CallReturns
    /\ ret'.op = "daw_track_create"
    /\ ret'.res # DAW_ERR_NOT_INIT

Rejected ==
    /\ ret'.res = DAW_ERR_INVALID_PARAM
    /\ SceneUnchanged
\* the call returns OK and no field of the scene outside fields has changed
Accepted(fields) ==
    /\ ret'.res = DAW_OK
    /\ \A f \in (DOMAIN G) \ fields : G'[f] = G[f]
    /\ UNCHANGED <<next_id, lock, dev, issued, dead>>

SeekChecked(b) ==
    /\ Lt(b, 0) => Rejected
    /\ Ge(b, 0) => (Accepted({"pos_beats", "pos_secs"}) /\ G'.pos_beats = b)
SetBpmChecked(b) ==
    /\ (Lt(b, D(1)) \/ Gt(b, D(999))) => Rejected
    /\ (Ge(b, D(1)) /\ Ge(D(999), b))
           => (Accepted({"bpm"}) /\ G'.bpm = b)
SetLoopChecked(en, st, e) ==
    /\ Ge(st, e) => Rejected
    /\ Gt(e, st)
           => /\ Accepted({"loop_on", "loop_start", "loop_end"})
              /\ G'.loop_on = en
              /\ G'.loop_start = st
              /\ G'.loop_end = e
SetMasterChecked(v) ==
    /\ (Lt(v, 0) \/ Gt(v, F(2))) => Rejected
    /\ (Ge(v, 0) /\ Ge(F(2), v))
           => (Accepted({"master_vol"}) /\ G'.master_vol = v)

\* C16: on an initialized engine, daw_seek(beat < 0), daw_set_bpm(bpm < 1 or
\* bpm > 999), daw_set_loop(en, s, e) with e <= s for either en, and
\* daw_set_master_volume(v < 0 or v > 2) return InvalidParam and change
\* nothing; with an argument inside its range each returns OK, stores the
\* argument and changes no other field than the ones it names.
C16_ArgumentsValidated ==
    [][G.ready =>
          /\ \A b \in ArgBeats : daw_seek(b) => SeekChecked(b)
          /\ \A b \in ArgBpms : daw_set_bpm(b) => SetBpmChecked(b)
          /\ \A lp \in ArgLoops :
                 daw_set_loop(lp.en, lp.s, lp.e)
                     => SetLoopChecked(lp.en, lp.s, lp.e)
          /\ \A v \in GainValues :
                 daw_set_master_volume(v) => SetMasterChecked(v)]_vars

\* a set_loop that disables the loop with an empty region has been refused,
\* with a loop region, a tempo and a playhead set before
C16_Witness ==
    /\ ret.op = "daw_set_loop"
    /\ ret.res = DAW_ERR_INVALID_PARAM
    /\ G.loop_end = D(2)
    /\ G.bpm = D(60)
    /\ G.pos_beats = D(3)
    /\ G.master_vol = F(2)

\* C17: daw_pause on an initialized engine returns OK, changes the transport
\* state from Playing to Paused and in Stopped, Paused or Recording leaves it
\* as it is, and changes nothing else; and while the transport is Paused the
\* playhead is not moved by the callback, so that a later daw_play resumes
\* from the position at which the transport was paused.
C17_PauseKeepsPlayhead ==
    [][/\ (G.ready /\ daw_pause)
            => /\ ret'.res = DAW_OK
               /\ G' = [G EXCEPT !.state =
                            IF G.state = DAW_STATE_PLAYING
                            THEN DAW_STATE_PAUSED ELSE G.state]
       /\ (G.state = DAW_STATE_PAUSED /\ cb' # cb)
            => /\ G'.pos_beats = G.pos_beats
               /\ G'.pos_secs = G.pos_secs]_vars

\* C18: on an initialized engine the playhead is never before the origin:
\* pos_beats >= 0 and pos_secs >= 0.
C18_PlayheadNonNegative ==
    G.ready => (G.pos_beats >= 0 /\ G.pos_secs >= 0)

\* C19: on an initialized engine the tempo is within 1 to 999 bpm and the
\* sample rate is greater than 0, whatever configuration daw_init was given.
C19_TempoAndRateDefined ==
    G.ready => (Ge(G.bpm, D(1)) /\ Ge(D(999), G.bpm) /\ G.sr > 0)

\* C20: whenever the scene lock is free, any_solo is true exactly when some
\* active track has its solo flag set.
C20_AnySoloMatchesTracks ==
    lock = "free"
        => (G.any_solo <=> (\E i \in Slots : /\ G.tracks[i].active
                                              /\ G.tracks[i].soloed))

\* a soloed track has been destroyed after the slot of an earlier destroyed
\* track was reused: its slot still holds the solo flag, the track in the
\* reused slot is active and not soloed, and any_solo is false
C20_Witness ==
    /\ lock = "free"
    /\ ret.op = "daw_track_destroy"
    /\ ret.res = DAW_OK
    /\ dead = {1, 2}
    /\ G.tracks[0].id = 3
    /\ G.tracks[0].active
    /\ ~G.tracks[0].soloed
    /\ ~G.tracks[1].active
    /\ G.tracks[1].soloed
    /\ ~G.any_solo

\* C21: every clip below the clip count of an active track is active, has
\* left and right buffers of n frames each, a length in beats greater than
\* 0 and a start beat of at least 0.
C21_ExposedClipsWellFormed ==
    \A i \in Slots :
        G.tracks[i].active =>
            \A ci \in ClipSlots :
                ci < G.tracks[i].n_clips =>
                    LET cl == G.tracks[i].clips[ci]
                    IN  /\ cl.active
                        /\ Len(cl.l) = cl.n
                        /\ Len(cl.r) = cl.n
                        /\ cl.len_beats > 0
                        /\ cl.start_beat >= 0

\* C22: the peak meters of every active track and the master peak meters
\* lie within 0 .. 1.
C22_PeaksWithinUnit ==
    /\ \A i \in Slots :
           G.tracks[i].active =>
               /\ InRange(G.tracks[i].peak_l, 0, F(1))
               /\ InRange(G.tracks[i].peak_r, 0, F(1))
    /\ InRange(G.master_peak_l, 0, F(1))
    /\ InRange(G.master_peak_r, 0, F(1))

\* C23: a callback that runs the mix pass for a period of nf frames accesses
\* its accumulators mix_l and mix_r only at indices below their length, and
\* when it is done the output holds nf frames of 2 samples.
C23_MixWithinAccumulators ==
    /\ cb.mix_last < MixLen
    /\ (cb.pc = "done" /\ cb.mixed)
           => /\ Len(out) = cb.nf
              /\ \A f \in 1 .. cb.nf : Len(out[f]) = DAW_CHANNELS

\* no clip's buffers have been freed twice, and no callback has read buffers
\* that had been freed
FreedAtMostOnce ==
    /\ \A i \in Slots, c \in ClipSlots : G.tracks[i].clips[c].frees <= 1
    /\ ~cb.freed_read
\* when daw_shutdown clears the scene and returns, the buffers of every clip
\* a track slot holds have been freed
NoneLeftUnfreed ==
    daw_shutdown_wipe
        => \A i \in Slots, c \in ClipSlots :
               c < G.tracks[i].n_clips => G.tracks[i].clips[c].frees = 1

\* C24: the PCM buffers of every clip that daw_track_load_file created are
\* freed exactly once, by the daw_track_destroy of the track or by
\* daw_shutdown: never twice, never while a callback still reads them, and
\* none is left unfreed when daw_shutdown returns -- with two control threads.
C24_BuffersFreedOnce ==
    []FreedAtMostOnce /\ [][NoneLeftUnfreed]_vars

====
